---- MODULE Spec2Model ----
(***************************************************************************)
(* slides-converter: the Markdown -> slide-record conversion of            *)
(* src/app/api/convert/route.ts (POST, parseMarkdownToSlides) as a state   *)
(* machine.  Text is a sequence of one-character strings, so that every    *)
(* regular expression and string method of the source is computed          *)
(* character by character.                                                 *)
(*                                                                         *)
(* route.ts holds four successive definitions of parseMarkdownToSlides;    *)
(* the last one (lines 465-515) is the one in effect and is the one named  *)
(* parseMarkdownToSlides here.                                             *)
(***************************************************************************)
EXTENDS Integers, Sequences, FiniteSets, TLC

(***************************************************************************)
(* Characters and string primitives (JavaScript String / RegExp steps).    *)
(***************************************************************************)

\* /\s/ over the characters the model uses.
IsSpace(c) == c \in {" ", "\n", "\t"}

\* p occurs in s at index i (1-based).
StartsAt(s, p, i) ==
    /\ i >= 1
    /\ i + Len(p) - 1 <= Len(s)
    /\ \A k \in 1..Len(p) : s[i + k - 1] = p[k]

\* String.prototype.indexOf(p, from): least index >= from where p occurs, 0 if none.
RECURSIVE IndexFrom(_, _, _)
IndexFrom(s, p, from) ==
    IF from + Len(p) - 1 > Len(s) THEN 0
    ELSE IF StartsAt(s, p, from) THEN from
    ELSE IndexFrom(s, p, from + 1)

\* s without its characters i..j.
Cut(s, i, j) == SubSeq(s, 1, i - 1) \o SubSeq(s, j + 1, Len(s))

\* s from index i to its end.
Tail_(s, i) == SubSeq(s, i, Len(s))

RECURSIVE TrimStartIdx(_, _)
TrimStartIdx(s, i) ==
    IF i > Len(s) THEN i
    ELSE IF IsSpace(s[i]) THEN TrimStartIdx(s, i + 1) ELSE i

RECURSIVE TrimEndIdx(_, _)
TrimEndIdx(s, j) ==
    IF j < 1 THEN j
    ELSE IF IsSpace(s[j]) THEN TrimEndIdx(s, j - 1) ELSE j

\* String.prototype.trim()
trim(s) == SubSeq(s, TrimStartIdx(s, 1), TrimEndIdx(s, Len(s)))

\* String.prototype.split(sep) for a non-empty literal separator.
RECURSIVE split(_, _)
split(s, sep) ==
    LET i == IndexFrom(s, sep, 1)
    IN  IF i = 0 THEN << s >>
        ELSE << SubSeq(s, 1, i - 1) >> \o split(Tail_(s, i + Len(sep)), sep)

\* Array.prototype.join(sep)
RECURSIVE join(_, _)
join(parts, sep) ==
    IF Len(parts) = 0 THEN << >>
    ELSE IF Len(parts) = 1 THEN parts[1]
    ELSE parts[1] \o sep \o join(Tail(parts), sep)

\* s.replace(/p/g, r) for a literal pattern p.
RECURSIVE ReplaceAllLit(_, _, _)
ReplaceAllLit(s, p, r) ==
    LET i == IndexFrom(s, p, 1)
    IN  IF i = 0 THEN s
        ELSE SubSeq(s, 1, i - 1) \o r \o ReplaceAllLit(Tail_(s, i + Len(p)), p, r)

(***************************************************************************)
(* Literals of the source.                                                 *)
(***************************************************************************)
NL == << "\n" >>
Dashes == << "-", "-", "-" >>
StyleOpen == << "<", "s", "t", "y", "l", "e", ">" >>
StyleClose == << "<", "/", "s", "t", "y", "l", "e", ">" >>
HrTag == << "<", "h", "r", ">" >>
Blank == << " " >>

(***************************************************************************)
(* Preprocessing: front matter and style blocks.                           *)
(***************************************************************************)

\* s.replace(/open[\s\S]*?close/, ''): the leftmost, shortest region from
\* `open` to the next `close` is deleted; with anchored (the /^.../ form)
\* the region must start at the first character.
ReplaceFirstRegion(s, open, close, anchored) ==
    LET i == IF anchored THEN (IF StartsAt(s, open, 1) THEN 1 ELSE 0)
             ELSE IndexFrom(s, open, 1)
        j == IF i = 0 THEN 0 ELSE IndexFrom(s, close, i + Len(open))
    IN  IF j = 0 THEN s ELSE Cut(s, i, j + Len(close) - 1)

\* s.replace(/open[\s\S]*?close/g, ''): one left-to-right pass over s, each
\* match deleted, the scan resuming after the match.
RECURSIVE ReplaceAllRegions(_, _, _)
ReplaceAllRegions(s, open, close) ==
    LET i == IndexFrom(s, open, 1)
        j == IF i = 0 THEN 0 ELSE IndexFrom(s, close, i + Len(open))
    IN  IF j = 0 THEN s
        ELSE SubSeq(s, 1, i - 1)
             \o ReplaceAllRegions(Tail_(s, j + Len(close)), open, close)

\* POST, route.ts 586-588: both replaces are unanchored and not global.
PostStripFrontmatter(markdown) == ReplaceFirstRegion(markdown, Dashes, Dashes, FALSE)
PostStripStyle(markdown) == ReplaceFirstRegion(markdown, StyleOpen, StyleClose, FALSE)
PostPreprocess(markdown) == PostStripStyle(PostStripFrontmatter(markdown))

\* the front-matter replace without its '^', as the earlier definition at
\* line 159 had it
StripFrontmatterAnywhere(markdown) == ReplaceFirstRegion(markdown, Dashes, Dashes, FALSE)

\* parseMarkdownToSlides, route.ts 469-472.
StripFrontmatter(markdown) == ReplaceFirstRegion(markdown, Dashes, Dashes, TRUE)
StripStyles(markdown) == ReplaceAllRegions(markdown, StyleOpen, StyleClose)
cleanedMarkdown(markdown) == trim(StripStyles(StripFrontmatter(markdown)))

(***************************************************************************)
(* md.render (markdown-it, html: true), route.ts 475, for documents whose  *)
(* lines are blank, a run of three or more hyphens, an ATX heading         *)
(* ("#".."######" then a space or the end of the line) or plain text.      *)
(* A hyphen line directly under paragraph text is a setext underline and   *)
(* turns that paragraph into an <h2>; elsewhere it is a thematic break.    *)
(***************************************************************************)
IsBlankLine(l) == \A k \in 1..Len(l) : IsSpace(l[k])

RECURSIVE CountRun(_, _, _)
\* length of the run of character c in s starting at index i
CountRun(s, c, i) ==
    IF i <= Len(s) /\ s[i] = c THEN 1 + CountRun(s, c, i + 1) ELSE 0

\* ATX heading level of a line (0: not a heading).
AtxLevel(l) ==
    LET ind == CountRun(l, " ", 1)
        k == CountRun(l, "#", ind + 1)
        nxt == ind + k + 1
    IN  IF ind <= 3 /\ k >= 1 /\ k <= 6 /\ (nxt > Len(l) \/ l[nxt] \in {" ", "\t"})
        THEN k ELSE 0

\* Text of an ATX heading line: what follows the markers, trimmed.
AtxText(l) ==
    LET ind == CountRun(l, " ", 1)
        k == CountRun(l, "#", ind + 1)
    IN  trim(Tail_(l, ind + k + 1))

\* A line of three or more hyphens (up to three spaces of indent, trailing blanks).
IsDashLine(l) ==
    LET ind == CountRun(l, " ", 1)
        k == CountRun(l, "-", ind + 1)
    IN  ind <= 3 /\ k >= 3 /\ IsBlankLine(Tail_(l, ind + k + 1))

Digit(k) == << "0", "1", "2", "3", "4", "5", "6" >>[k + 1]

\* The text renderer's escapeHtml: '>', '"' and '&' become entities; an entity
\* reference of the four kinds below is decoded and escaped again, so it is
\* copied; a backslash before a punctuation character makes that character
\* literal text (so '\&amp;' is the five characters '&amp;', not an entity).
EntAmp == << "&", "a", "m", "p", ";" >>
EntLt == << "&", "l", "t", ";" >>
EntGt == << "&", "g", "t", ";" >>
EntQuot == << "&", "q", "u", "o", "t", ";" >>

\* the characters a backslash escapes (the inline rule 'escape'); the
\* backquote, escaped as well, occurs in none of the texts below
EscapedChars ==
    { "\\", "!", "\"", "#", "$", "%", "&", "'", "(", ")", "*", "+", ",", ".",
      "/", ":", ";", "<", "=", ">", "?", "@", "[", "]", "^", "_", "{",
      "|", "}", "~", "-" }

\* escapeHtml of one character
EscapeHtmlChar(c) ==
    IF c = "&" THEN EntAmp
    ELSE IF c = "<" THEN EntLt
    ELSE IF c = ">" THEN EntGt
    ELSE IF c = "\"" THEN EntQuot
    ELSE << c >>

RECURSIVE RenderInline(_)
RenderInline(t) ==
    IF Len(t) = 0 THEN << >>
    ELSE IF t[1] = "\\" /\ Len(t) >= 2 /\ t[2] \in EscapedChars THEN
        EscapeHtmlChar(t[2]) \o RenderInline(Tail_(t, 3))
    ELSE IF t[1] = ">" THEN EntGt \o RenderInline(Tail(t))
    ELSE IF t[1] = "\"" THEN EntQuot \o RenderInline(Tail(t))
    ELSE IF t[1] = "&" THEN
        IF StartsAt(t, EntAmp, 1) THEN EntAmp \o RenderInline(Tail_(t, Len(EntAmp) + 1))
        ELSE IF StartsAt(t, EntLt, 1) THEN EntLt \o RenderInline(Tail_(t, Len(EntLt) + 1))
        ELSE IF StartsAt(t, EntGt, 1) THEN EntGt \o RenderInline(Tail_(t, Len(EntGt) + 1))
        ELSE IF StartsAt(t, EntQuot, 1) THEN EntQuot \o RenderInline(Tail_(t, Len(EntQuot) + 1))
        ELSE EntAmp \o RenderInline(Tail(t))
    ELSE << t[1] >> \o RenderInline(Tail(t))

HeadingHtml(k, text) ==
    << "<", "h", Digit(k), ">" >> \o RenderInline(text)
        \o << "<", "/", "h", Digit(k), ">", "\n" >>

\* A paragraph: its lines, each without leading blanks, joined by newlines.
ParagraphText(para) == trim(join(para, NL))
ParagraphHtml(para) ==
    IF Len(para) = 0 THEN << >>
    ELSE << "<", "p", ">" >> \o RenderInline(ParagraphText(para))
            \o << "<", "/", "p", ">", "\n" >>

RECURSIVE RenderBlocks(_, _, _)
RenderBlocks(lines, i, para) ==
    IF i > Len(lines) THEN ParagraphHtml(para)
    ELSE LET l == lines[i] IN
        IF IsBlankLine(l) THEN ParagraphHtml(para) \o RenderBlocks(lines, i + 1, << >>)
        ELSE IF AtxLevel(l) > 0 THEN
            ParagraphHtml(para) \o HeadingHtml(AtxLevel(l), AtxText(l))
                \o RenderBlocks(lines, i + 1, << >>)
        ELSE IF IsDashLine(l) THEN
            IF Len(para) > 0
            THEN HeadingHtml(2, ParagraphText(para)) \o RenderBlocks(lines, i + 1, << >>)
            ELSE HrTag \o NL \o RenderBlocks(lines, i + 1, << >>)
        ELSE RenderBlocks(lines, i + 1, Append(para, Tail_(l, TrimStartIdx(l, 1))))

mdRender(src) == IF Len(src) = 0 THEN << >> ELSE RenderBlocks(split(src, NL), 1, << >>)

(***************************************************************************)
(* parseMarkdownToSlides, route.ts 465-515.                                *)
(***************************************************************************)

\* /<[^>]*>/ without the g flag: only the first tag is removed
StripFirstTag(s) ==
    LET i == IndexFrom(s, << "<" >>, 1)
        j == IF i = 0 THEN 0 ELSE IndexFrom(s, << ">" >>, i + 1)
    IN  IF j = 0 THEN s ELSE Cut(s, i, j)

\* /<[^>]*>/g -> '': each '<' up to the first '>' after it, in one pass.
RECURSIVE StripTags(_)
StripTags(s) ==
    LET i == IndexFrom(s, << "<" >>, 1)
        j == IF i = 0 THEN 0 ELSE IndexFrom(s, << ">" >>, i + 1)
    IN  IF j = 0 THEN s
        ELSE SubSeq(s, 1, i - 1) \o StripTags(Tail_(s, j + 1))

\* contentHtml.match(/<h([1-3])[^>]*>([\s\S]*?)<\/h\1>/) tried at index i:
\* [found, start, gt (the '>' closing the open tag), close (start of the
\* closing tag), level].
NoMatch == [found |-> FALSE, start |-> 0, gt |-> 0, close |-> 0, level |-> 0]

HeadingMatchAt(s, i) ==
    IF /\ i + 3 <= Len(s)
       /\ s[i] = "<" /\ s[i + 1] = "h" /\ s[i + 2] \in {"1", "2", "3"}
    THEN LET g == IndexFrom(s, << ">" >>, i + 3)
             e == IF g = 0 THEN 0
                  ELSE IndexFrom(s, << "<", "/", "h", s[i + 2], ">" >>, g + 1)
         IN  IF e = 0 THEN NoMatch
             ELSE [found |-> TRUE, start |-> i, gt |-> g, close |-> e,
                   level |-> CHOOSE k \in 1..3 : Digit(k) = s[i + 2]]
    ELSE NoMatch

RECURSIVE HeadingMatchFrom(_, _)
HeadingMatchFrom(s, i) ==
    IF i > Len(s) THEN NoMatch
    ELSE IF HeadingMatchAt(s, i).found THEN HeadingMatchAt(s, i)
    ELSE HeadingMatchFrom(s, i + 1)

RECURSIVE HeadingMatchBack(_, _)
HeadingMatchBack(s, i) ==
    IF i < 1 THEN NoMatch
    ELSE IF HeadingMatchAt(s, i).found THEN HeadingMatchAt(s, i)
    ELSE HeadingMatchBack(s, i - 1)

\* the last heading of the section taken where line 485 takes the first
headingMatchLast(contentHtml) == HeadingMatchBack(contentHtml, Len(contentHtml))

headingMatch(contentHtml) == HeadingMatchFrom(contentHtml, 1)

\* toLowerCase of the letters that occur in the tags of line 497-498 (the /i flag).
Lower(c) ==
    CASE c = "P" -> "p" [] c = "L" -> "l" [] c = "I" -> "i"
      [] c = "H" -> "h" [] c = "B" -> "b" [] c = "R" -> "r" [] OTHER -> c

StartsAtCI(s, p, i) ==
    /\ i + Len(p) - 1 <= Len(s)
    /\ \A k \in 1..Len(p) : Lower(s[i + k - 1]) = p[k]

\* Length of the match of /<p>|<\/p>|<\/li>|<\/h[1-6]>|<br\/?>/i at the
\* start of s, 0 when there is none.
BlockTagLen(s) ==
    IF Len(s) = 0 \/ s[1] # "<" THEN 0
    ELSE IF StartsAtCI(s, << "<", "p", ">" >>, 1) THEN 3
    ELSE IF StartsAtCI(s, << "<", "/", "p", ">" >>, 1) THEN 4
    ELSE IF StartsAtCI(s, << "<", "/", "l", "i", ">" >>, 1) THEN 5
    ELSE IF /\ StartsAtCI(s, << "<", "/", "h" >>, 1)
            /\ Len(s) >= 5
            /\ s[4] \in {"1", "2", "3", "4", "5", "6"}
            /\ s[5] = ">" THEN 5
    ELSE IF StartsAtCI(s, << "<", "b", "r", "/", ">" >>, 1) THEN 5
    ELSE IF StartsAtCI(s, << "<", "b", "r", ">" >>, 1) THEN 4
    ELSE 0

\* line 497
RECURSIVE BlockTagsToNewlines(_)
BlockTagsToNewlines(s) ==
    IF Len(s) = 0 THEN << >>
    ELSE LET n == BlockTagLen(s)
         IN  IF n > 0 THEN NL \o BlockTagsToNewlines(Tail_(s, n + 1))
             ELSE << s[1] >> \o BlockTagsToNewlines(Tail(s))

\* line 498
RECURSIVE ListItemsToDashes(_)
ListItemsToDashes(s) ==
    IF Len(s) = 0 THEN << >>
    ELSE IF s[1] = "<" /\ StartsAtCI(s, << "<", "l", "i", ">" >>, 1)
         THEN << " ", "-", " " >> \o ListItemsToDashes(Tail_(s, 5))
         ELSE << s[1] >> \o ListItemsToDashes(Tail(s))

\* the same four replaces with '&amp;' decoded first instead of last
DecodeAmpFirst(s) ==
    ReplaceAllLit(
        ReplaceAllLit(
            ReplaceAllLit(
                ReplaceAllLit(s, EntAmp, << "&" >>),
                EntLt, << "<" >>),
            EntGt, << ">" >>),
        EntQuot, << "\"" >>)

\* lines 500-503, in the source's order
DecodeEntities(s) ==
    ReplaceAllLit(
        ReplaceAllLit(
            ReplaceAllLit(
                ReplaceAllLit(s, EntLt, << "<" >>),
                EntGt, << ">" >>),
            EntQuot, << "\"" >>),
        EntAmp, << "&" >>)

\* line 504: /\n{3,}/g -> '\n\n'
RECURSIVE CollapseNewlines(_)
CollapseNewlines(s) ==
    IF Len(s) = 0 THEN << >>
    ELSE LET n == CountRun(s, "\n", 1)
         IN  IF n >= 3 THEN << "\n", "\n" >> \o CollapseNewlines(Tail_(s, n + 1))
             ELSE IF n >= 1 THEN SubSeq(s, 1, n) \o CollapseNewlines(Tail_(s, n + 1))
             ELSE << s[1] >> \o CollapseNewlines(Tail(s))

\* lines 496-505
plainTextContent(contentHtml) ==
    trim(CollapseNewlines(DecodeEntities(StripTags(
        ListItemsToDashes(BlockTagsToNewlines(contentHtml))))))

\* a title left empty where line 508 puts a space
TitleKeptEmpty(title) == title

\* line 508: title || ' '
TitleOrBlank(title) == IF Len(title) = 0 THEN Blank ELSE title

\* the level fixed at 1, as the earlier definition at line 356 had it
LevelAlwaysOne(m) == 1

\* line 510: headingMatch ? parseInt(headingMatch[1], 10) : 1
LevelOf(m) == IF m.found THEN m.level ELSE 1

\* lines 480-511: the record of one HTML section
SlideOfSection(htmlSection) ==
    LET html == trim(htmlSection)
        m == headingMatch(html)
        title == IF m.found THEN trim(StripTags(SubSeq(html, m.gt + 1, m.close - 1)))
                 ELSE << >>
        contentHtml == IF m.found THEN Cut(html, m.start, m.close + 4) ELSE html
    IN  [title |-> TitleOrBlank(title),
         content |-> << plainTextContent(contentHtml) >>,
         level |-> LevelOf(m)]

\* the filter of line 512 left out: every slide is kept
KeepEverySlide(slide) == TRUE

\* line 512: the filter dropping wholly empty slides
KeepSlide(slide) ==
    \/ Len(trim(slide.title)) # 0
    \/ (Len(slide.content) > 0 /\ Len(trim(slide.content[1])) # 0)

slideHtmlSections(markdown) == split(mdRender(cleanedMarkdown(markdown)), HrTag)

parseMarkdownToSlides(markdown) ==
    LET secs == slideHtmlSections(markdown)
    IN  SelectSeq([i \in 1..Len(secs) |-> SlideOfSection(secs[i])], KeepSlide)

(***************************************************************************)
(* Inputs.  A document is given by its parts and the separator joining     *)
(* them: lines joined by newlines, or text fragments put side by side.     *)
(***************************************************************************)
MaxLines == 4
MaxPostLines == 3
MaxFragments == 3
MaxChunks == 3
MaxEntChunks == 3
MaxFrontLines == 1
MaxSlideLines == 4
MaxDrops == 3

RECURSIVE SeqsUpTo(_, _)
\* all sequences over S of length 0..n
SeqsUpTo(S, n) ==
    IF n = 0 THEN { << >> }
    ELSE LET shorter == SeqsUpTo(S, n - 1)
         IN  shorter \cup { Append(q, x) : q \in shorter, x \in S }

H1A == << "#", " ", "A" >>
H2B == << "#", "#", " ", "B" >>
H3C == << "#", "#", "#", " ", "C" >>
H4D == << "#", "#", "#", "#", " ", "D" >>
HashOnly == << "#" >>
LineX == << "x" >>
LineY == << "y" >>
LinePool == { Dashes, << >>, H1A, H2B, H3C, H4D, HashOnly, LineX, LineY }

\* documents quoted in the specification's testable properties
DeepTitleLine ==
    << "#", "#", "#", " ", "D", "e", "e", "p", " ", "T", "i", "t", "l", "e" >>
BodyTextLine == << "b", "o", "d", "y", " ", "t", "e", "x", "t" >>
TitleALine == << "#", " ", "T", "i", "t", "l", "e", " ", "A" >>
TitleBLine == << "#", " ", "T", "i", "t", "l", "e", " ", "B" >>
ContentALine == << "c", "o", "n", "t", "e", "n", "t", " ", "A" >>
ContentBLine == << "c", "o", "n", "t", "e", "n", "t", " ", "B" >>
JustSomeTextLine ==
    << "j", "u", "s", "t", " ", "s", "o", "m", "e", " ", "t", "e", "x", "t" >>
MoreTextLine == << "m", "o", "r", "e", " ", "t", "e", "x", "t" >>

DeepTitleDoc == << DeepTitleLine, BodyTextLine >>
DelimiterLedDoc ==
    << Dashes, TitleALine, ContentALine, Dashes, TitleBLine, ContentBLine >>
NoHeadingDoc == << JustSomeTextLine, MoreTextLine >>
ThreeSectionDoc ==
    << Dashes, H1A, LineX, Dashes, H2B, LineY, Dashes, H3C, LineX >>
SampleDocs == { DeepTitleDoc, DelimiterLedDoc, NoHeadingDoc, ThreeSectionDoc }

LineDocs == SeqsUpTo(LinePool, MaxLines) \cup SampleDocs
PostDocs == SeqsUpTo(LinePool, MaxPostLines) \cup SampleDocs

DotMd == << ".", "m", "d" >>
DotPptx == << ".", "p", "p", "t", "x" >>
NamePool ==
    { << "a" >> \o DotMd,
      << "a", ".", "t", "x", "t" >>,
      << "a" >> \o DotMd \o DotMd,
      << "a" >> \o DotMd \o << ".", "b", "a", "k" >> }

NoFile == [present |-> FALSE, name |-> << >>]

(***************************************************************************)
(* State.                                                                  *)
(***************************************************************************)
VARIABLES
    parts,      \* the uploaded document: its lines or fragments
    sep,        \* what joins the parts: NL for lines, << >> for fragments
    file,       \* formData.get('file'): [present, name]
    pc,         \* where the handler (or the function under test) stands
    textRead,   \* file.text() has been awaited
    markdown,   \* POST's local `markdown` after lines 586-588
    cleaned,    \* parseMarkdownToSlides' local `cleanedMarkdown`
    slides,     \* the list parseMarkdownToSlides returned
    created,    \* the arguments of every createPPTX call so far
    stripped,   \* results of successive plainTextContent passes
    response,   \* the NextResponse: [status, error, filename]
    isConverting, \* FileUpload's state `isConverting`
    message,    \* FileUpload's state `message`
    drops,      \* the onDrop invocations: where each stands, and its file's name
    downloads   \* the `download` names of the links clicked so far

vars == << parts, sep, file, pc, textRead, markdown, cleaned, slides, created,
           stripped, response, isConverting, message, drops, downloads >>

\* the state of the FileUpload component
client == << isConverting, message, drops, downloads >>
\* the state of the route handler and of the functions under test
server == << parts, sep, file, pc, textRead, markdown, cleaned, slides, created,
            stripped, response >>

\* the text of the uploaded document (file.text())
text == join(parts, sep)

NoResponse == [status |-> 0, error |-> "none", filename |-> << >>]

EndsWith(s, p) == Len(s) >= Len(p) /\ StartsAt(s, p, Len(s) - Len(p) + 1)

\* String.prototype.replace(p, r) with a string pattern: the first occurrence only.
ReplaceFirstLit(s, p, r) ==
    LET i == IndexFrom(s, p, 1)
    IN  IF i = 0 THEN s ELSE SubSeq(s, 1, i - 1) \o r \o Tail_(s, i + Len(p))

\* the extension check left out
AnyNameAccepted(n) == TRUE
\* line 578
IsMarkdownName(n) == EndsWith(n, DotMd)
\* the empty-list check left out
NeverNoSlides(list) == FALSE
\* line 592
NoSlides(list) == Len(list) = 0
\* line 601
DownloadName(n) == ReplaceFirstLit(n, DotMd, DotPptx)

Respond(status, error, filename) ==
    response' = [status |-> status, error |-> error, filename |-> filename]

NotDropped == [pc |-> "idle", name |-> << >>]

InitCommon ==
    /\ isConverting = FALSE
    /\ message = "none"
    /\ drops = [i \in 1..MaxDrops |-> NotDropped]
    /\ downloads = << >>
    /\ textRead = FALSE
    /\ markdown = << >>
    /\ cleaned = << >>
    /\ slides = << >>
    /\ created = << >>
    /\ stripped = << >>
    /\ response = NoResponse

(***************************************************************************)
(* POST, route.ts 569-608, one action per stretch between awaits.          *)
(***************************************************************************)
Init ==
    /\ sep = NL
    /\ \/ (file = NoFile /\ parts = << >>)
       \/ (/\ file \in [present : {TRUE}, name : NamePool]
           /\ parts \in PostDocs)
    /\ pc = "start"
    /\ InitCommon

\* lines 571-580: formData resolved; the two 400 checks
POST_checkFile ==
    /\ pc = "start"
    /\ IF ~file.present
       THEN /\ Respond(400, "nofile", << >>)
            /\ pc' = "done"
       ELSE IF ~IsMarkdownName(file.name)
       THEN /\ Respond(400, "extension", << >>)
            /\ pc' = "done"
       ELSE /\ pc' = "text"
            /\ UNCHANGED response
    /\ UNCHANGED << client, parts, sep, file, textRead, markdown, cleaned, slides,
                    created, stripped >>

\* lines 582-596: file.text() resolved; preprocessing, parsing, the empty check,
\* and the call of createPPTX
POST_convert ==
    /\ pc = "text"
    /\ textRead' = TRUE
    /\ markdown' = PostPreprocess(text)
    /\ cleaned' = cleanedMarkdown(markdown')
    /\ slides' = parseMarkdownToSlides(markdown')
    /\ IF NoSlides(slides')
       THEN /\ Respond(400, "noslides", << >>)
            /\ pc' = "done"
            /\ UNCHANGED created
       ELSE /\ created' = Append(created, slides')
            /\ pc' = "render"
            /\ UNCHANGED response
    /\ UNCHANGED << client, parts, sep, file, stripped >>

\* lines 596-603: createPPTX resolved
POST_respond ==
    /\ pc = "render"
    /\ Respond(200, "none", DownloadName(file.name))
    /\ pc' = "done"
    /\ UNCHANGED << client, parts, sep, file, textRead, markdown, cleaned, slides,
                    created, stripped >>

\* lines 604-607: an awaited promise rejected (formData, file.text or createPPTX)
POST_catch ==
    /\ pc \in {"start", "text", "render"}
    /\ Respond(500, "internal", << >>)
    /\ pc' = IF pc = "render" THEN "renderFailed" ELSE "failed"
    /\ UNCHANGED << client, parts, sep, file, textRead, markdown, cleaned, slides,
                    created, stripped >>

Next == POST_checkFile \/ POST_convert \/ POST_respond \/ POST_catch

Spec == Init /\ [][Next]_vars

(***************************************************************************)
(* POST on a document that opens with a front-matter block: a '---' line,  *)
(* the block's lines, a '---' line, and then the lines of the slides.      *)
(***************************************************************************)
FrontLinePool == { LineX, << >> }
SlideLinePool == { Dashes, << >>, H1A, LineX }
FrontDocs ==
    { << Dashes >> \o fm \o << Dashes >> \o rest :
        fm \in SeqsUpTo(FrontLinePool, MaxFrontLines),
        rest \in SeqsUpTo(SlideLinePool, MaxSlideLines) }
UploadName == << "a" >> \o DotMd

InitFront ==
    /\ sep = NL
    /\ file = [present |-> TRUE, name |-> UploadName]
    /\ parts \in FrontDocs
    /\ pc = "start"
    /\ InitCommon

SpecFront == InitFront /\ [][Next]_vars

(***************************************************************************)
(* parseMarkdownToSlides called on a document directly.                    *)
(***************************************************************************)
InitParse ==
    /\ sep = NL
    /\ parts \in LineDocs
    /\ file = NoFile
    /\ pc = "call"
    /\ InitCommon

ParseCall ==
    /\ pc = "call"
    /\ cleaned' = cleanedMarkdown(text)
    /\ slides' = parseMarkdownToSlides(text)
    /\ pc' = "returned"
    /\ UNCHANGED << client, parts, sep, file, textRead, markdown, created, stripped,
                    response >>

NextParse == ParseCall

SpecParse == InitParse /\ [][NextParse]_vars

(***************************************************************************)
(* The preprocessing of one conversion on its own: POST's two replaces     *)
(* (lines 586-588), then the replaces and trim inside                      *)
(* parseMarkdownToSlides (lines 469-472), on documents put together from   *)
(* text, delimiter and style fragments.                                    *)
(***************************************************************************)
StyleBlock == StyleOpen \o << "s" >> \o StyleClose
\* a style block sitting inside the letters of another open tag
NestedStyle ==
    << "<", "s", "t", "y" >> \o StyleBlock \o << "l", "e", ">", "t" >> \o StyleClose
FragmentPool ==
    { << "a" >>, << "b" >>, Dashes, StyleBlock, NestedStyle, StyleOpen, StyleClose }
FragmentDocs == SeqsUpTo(FragmentPool, MaxFragments)

InitPre ==
    /\ sep = << >>
    /\ parts \in FragmentDocs
    /\ file = NoFile
    /\ pc = "raw"
    /\ InitCommon

PrePost ==
    /\ pc = "raw"
    /\ markdown' = PostPreprocess(text)
    /\ pc' = "posted"
    /\ UNCHANGED << client, parts, sep, file, textRead, cleaned, slides, created,
                    stripped, response >>

PreParse ==
    /\ pc = "posted"
    /\ cleaned' = cleanedMarkdown(markdown)
    /\ pc' = "cleaned"
    /\ UNCHANGED << client, parts, sep, file, textRead, markdown, slides, created,
                    stripped, response >>

NextPre == PrePost \/ PreParse

SpecPre == InitPre /\ [][NextPre]_vars

(***************************************************************************)
(* parseMarkdownToSlides called on a one-section document whose body line  *)
(* is put together from entity references and plain characters, with or   *)
(* without a heading line above it.                                        *)
(***************************************************************************)
EscapedAmp == << "\\" >> \o EntAmp
EntChunkPool ==
    { EntAmp, EntLt, EntGt, EntQuot, EscapedAmp, << "l", "t", ";" >>,
      << "&" >>, << "x" >>, << " " >> }
EntBodyLines == { join(cs, << >>) : cs \in SeqsUpTo(EntChunkPool, MaxEntChunks) }
EntDocs == { << l >> : l \in EntBodyLines } \cup { << H1A, l >> : l \in EntBodyLines }

InitEntity ==
    /\ sep = NL
    /\ parts \in EntDocs
    /\ file = NoFile
    /\ pc = "call"
    /\ InitCommon

SpecEntity == InitEntity /\ [][NextParse]_vars

(***************************************************************************)
(* The HTML-stripping chain (plainTextContent, lines 496-505) applied to   *)
(* a string and then to its own output.                                    *)
(***************************************************************************)
ChunkPool ==
    { << "<", "p", ">" >>, << "<", "l", "i", ">" >>, << "<", "b", ">" >>,
      << "<" >>, << ">" >>, EntLt, EntGt, EntAmp, << "l", "t", ";" >>,
      << "\n" >>, << "a" >>, << " " >> }
ChunkDocs == SeqsUpTo(ChunkPool, MaxChunks)

InitStrip ==
    /\ sep = << >>
    /\ parts \in ChunkDocs
    /\ file = NoFile
    /\ pc = "html"
    /\ InitCommon

StripOnce ==
    /\ pc = "html"
    /\ stripped' = << plainTextContent(text) >>
    /\ pc' = "once"
    /\ UNCHANGED << client, parts, sep, file, textRead, markdown, cleaned, slides,
                    created, response >>

StripTwice ==
    /\ pc = "once"
    /\ stripped' = Append(stripped, plainTextContent(stripped[1]))
    /\ pc' = "twice"
    /\ UNCHANGED << client, parts, sep, file, textRead, markdown, cleaned, slides,
                    created, response >>

NextStrip == StripOnce \/ StripTwice

SpecStrip == InitStrip /\ [][NextStrip]_vars

(***************************************************************************)
(* FileUpload.tsx: onDrop, lines 10-53, one action per stretch between     *)
(* awaits.  useDropzone is given no `disabled` option: while isConverting  *)
(* the drop zone only carries the classes pointer-events-none opacity-50   *)
(* (line 75), so the file dialog can still be opened from the keyboard and *)
(* onDrop can be called while an earlier call awaits its response.         *)
(***************************************************************************)
DroppedFiles == { NoFile } \cup [present : {TRUE}, name : NamePool]

\* line 41
ClientDownloadName(n) == ReplaceFirstLit(n, DotMd, DotPptx)

\* lines 48-52: catch, then finally
onDrop_caught(i) ==
    /\ message' = "error"
    /\ isConverting' = FALSE
    /\ drops' = [drops EXCEPT ![i].pc = "done"]
    /\ UNCHANGED downloads

\* lines 11-31: the call up to `await fetch`
onDrop_call ==
    \E i \in 1..MaxDrops, f \in DroppedFiles :
        /\ drops[i].pc = "idle"
        /\ \A j \in 1..(i - 1) : drops[j].pc # "idle"
        /\ IF ~f.present
           THEN /\ drops' = [drops EXCEPT ![i].pc = "done"]
                /\ UNCHANGED << isConverting, message >>
           ELSE IF ~EndsWith(f.name, DotMd)
           THEN /\ message' = "notMarkdown"
                /\ drops' = [drops EXCEPT ![i] = [pc |-> "done", name |-> f.name]]
                /\ UNCHANGED isConverting
           ELSE /\ isConverting' = TRUE
                /\ message' = "converting"
                /\ drops' = [drops EXCEPT ![i] = [pc |-> "fetch", name |-> f.name]]
        /\ UNCHANGED << downloads, server >>

\* lines 27-36: fetch settled
onDrop_fetched ==
    \E i \in 1..MaxDrops, outcome \in {"ok", "notOk", "rejected"} :
        /\ drops[i].pc = "fetch"
        /\ IF outcome = "ok"
           THEN /\ drops' = [drops EXCEPT ![i].pc = "blob"]
                /\ UNCHANGED << isConverting, message, downloads >>
           ELSE IF outcome = "notOk"
           THEN /\ drops' = [drops EXCEPT ![i].pc = "json"]
                /\ UNCHANGED << isConverting, message, downloads >>
           ELSE onDrop_caught(i)
        /\ UNCHANGED server

\* lines 33-35: response.json() settled; either way an Error is thrown
onDrop_errorBody ==
    \E i \in 1..MaxDrops :
        /\ drops[i].pc = "json"
        /\ onDrop_caught(i)
        /\ UNCHANGED server

\* lines 37-52: response.blob() settled
onDrop_blob ==
    \E i \in 1..MaxDrops, resolved \in BOOLEAN :
        /\ drops[i].pc = "blob"
        /\ IF resolved
           THEN /\ downloads' = Append(downloads, ClientDownloadName(drops[i].name))
                /\ message' = "completed"
                /\ isConverting' = FALSE
                /\ drops' = [drops EXCEPT ![i].pc = "done"]
           ELSE onDrop_caught(i)
        /\ UNCHANGED server

InitUpload ==
    /\ sep = NL
    /\ parts = << >>
    /\ file = NoFile
    /\ pc = "client"
    /\ InitCommon

NextUpload == onDrop_call \/ onDrop_fetched \/ onDrop_errorBody \/ onDrop_blob

SpecUpload == InitUpload /\ [][NextUpload]_vars

(***************************************************************************)
(* Reading a document line by line, as the claims describe it.             *)
(***************************************************************************)
HashCount(l) == CountRun(l, "#", 1)
\* one to three '#' characters followed by a space
IsHeadingLine(l) ==
    /\ HashCount(l) \in 1..3
    /\ Len(l) > HashCount(l)
    /\ l[HashCount(l) + 1] = " "
HeadingText(l) == trim(Tail_(l, HashCount(l) + 2))
\* '#' characters and nothing else: a heading without text
IsBareMarker(l) == HashCount(l) >= 1 /\ Len(l) = HashCount(l)
IsDelimiterLine(l) == l = Dashes
IsTextLine(l) == Len(l) > 0 /\ ~IsBlankLine(l) /\ l[1] # "#" /\ ~IsDelimiterLine(l)
HeadingLines(ls) == SelectSeq(ls, IsHeadingLine)
HasDelimiterLine(ls) == \E i \in 1..Len(ls) : IsDelimiterLine(ls[i])
Returned == pc = "returned"

\* C1: for a document with k >= 1 heading lines (one to three '#' and a space)
\* and no '---' line, parseMarkdownToSlides returns k records, in order, the
\* i-th titled with the text of the i-th heading line.
C1_RecordPerHeading ==
    (Returned /\ ~HasDelimiterLine(parts) /\ Len(HeadingLines(parts)) >= 1) =>
        /\ Len(slides) = Len(HeadingLines(parts))
        /\ \A i \in 1..Len(slides) :
               slides[i].title = HeadingText(HeadingLines(parts)[i])

\* The sections of a delimiter-led document: what follows each '---' line.
DelimiterLedSections(ls) == Tail(split(ls, << Dashes >>))
\* n >= 1 sections, each a '---' line, a '# T' line, then text lines
IsDelimiterLed(ls) ==
    /\ Len(ls) > 0
    /\ IsDelimiterLine(ls[1])
    /\ \A k \in 1..Len(DelimiterLedSections(ls)) :
           LET s == DelimiterLedSections(ls)[k]
           IN  /\ Len(s) >= 1
               /\ IsHeadingLine(s[1]) /\ HashCount(s[1]) = 1
               /\ \A j \in 2..Len(s) : IsTextLine(s[j])

\* C2: a document of n >= 1 sections, each a '---' line, a '# T_i' line and
\* body lines, yields exactly n records in order, record i titled T_i with the
\* body lines of section i as its body.
C2_DelimiterLedSections ==
    (Returned /\ IsDelimiterLed(parts)) =>
        LET secs == DelimiterLedSections(parts)
        IN  /\ Len(slides) = Len(secs)
            /\ \A i \in 1..Len(slides) :
                   /\ slides[i].title = HeadingText(secs[i][1])
                   /\ slides[i].content = << join(Tail(secs[i]), NL) >>

\* the handler has run lines 582-590 on the uploaded text
Converted == textRead /\ pc \in {"render", "renderFailed", "done"}

\* C3: for a document that does not begin with '---', the front-matter
\* replaces of a conversion remove nothing: POST's leaves the text as it was
\* (up to its style replace) and the one in parseMarkdownToSlides leaves
\* POST's result as it was (up to the style replace and the trim).
C3_OnlyLeadingBlockRemoved ==
    (Converted /\ ~StartsAt(text, Dashes, 1)) =>
        /\ markdown = PostStripStyle(text)
        /\ cleaned = trim(StripStyles(markdown))

(***************************************************************************)
(* The sections of the cleaned document, read line by line: a '---' line   *)
(* separates two sections unless it stands directly under a text line      *)
(* (where it underlines that text instead).                                *)
(***************************************************************************)
RECURSIVE SectionWalk(_, _, _, _, _)
SectionWalk(ls, i, underText, cur, acc) ==
    IF i > Len(ls) THEN Append(acc, cur)
    ELSE IF IsDelimiterLine(ls[i]) /\ ~underText
         THEN SectionWalk(ls, i + 1, FALSE, << >>, Append(acc, cur))
         ELSE SectionWalk(ls, i + 1, IsTextLine(ls[i]), Append(cur, ls[i]), acc)

LineSections(ls) == SectionWalk(ls, 1, FALSE, << >>, << >>)
\* nothing to derive a title or a body from: blank lines and bare markers only
IsBlankSection(s) == \A j \in 1..Len(s) : IsBlankLine(s[j]) \/ IsBareMarker(s[j])
IsNonBlankSection(s) == ~IsBlankSection(s)
\* the non-blank sections of the text handed to segmentation
Sections == SelectSeq(LineSections(split(cleaned, NL)), IsNonBlankSection)

IsBlankText(s) == Len(trim(s)) = 0

\* C4: every record parseMarkdownToSlides returns has a title or a body that
\* is non-empty after trimming, and a blank section produces no record: there
\* are exactly as many records as non-blank sections.
C4_NoEmptyRecord ==
    Returned =>
        /\ \A i \in 1..Len(slides) :
               \/ ~IsBlankText(slides[i].title)
               \/ ~IsBlankText(slides[i].content[1])
        /\ Len(slides) = Len(Sections)

\* a call that dropped a blank section and kept a non-blank one
C4_Witness ==
    /\ Returned
    /\ Len(slides) >= 1
    /\ Len(slideHtmlSections(text)) > Len(slides)

\* index of the first heading line of a section (0: none)
FirstHeadingIdx(s) ==
    IF \E j \in 1..Len(s) : IsHeadingLine(s[j])
    THEN CHOOSE j \in 1..Len(s) :
             IsHeadingLine(s[j]) /\ \A m \in 1..(j - 1) : ~IsHeadingLine(s[m])
    ELSE 0
\* the section's title comes from a '#' heading line: it has one, and neither
\* an underlined text line nor a heading without text stands before it
TitledByHeading(s) ==
    /\ FirstHeadingIdx(s) > 0
    /\ \A m \in 1..(FirstHeadingIdx(s) - 1) :
           ~IsDelimiterLine(s[m]) /\ ~IsBareMarker(s[m])

DeepTitle == << "D", "e", "e", "p", " ", "T", "i", "t", "l", "e" >>

IsPlainSection(s) ==
    \A j \in 1..Len(s) : IsTextLine(s[j]) \/ IsBlankLine(s[j])

RECURSIVE DropBlankEnds(_)
\* a section without its leading and trailing blank lines
DropBlankEnds(s) ==
    IF Len(s) = 0 THEN s
    ELSE IF IsBlankLine(s[1]) THEN DropBlankEnds(Tail(s))
    ELSE IF IsBlankLine(s[Len(s)]) THEN DropBlankEnds(SubSeq(s, 1, Len(s) - 1))
    ELSE s

RECURSIVE SingleBlanks(_)
\* the lines of s with every run of blank lines reduced to one
SingleBlanks(s) ==
    IF Len(s) <= 1 THEN s
    ELSE IF IsBlankLine(s[1]) /\ IsBlankLine(s[2]) THEN SingleBlanks(Tail(s))
    ELSE << s[1] >> \o SingleBlanks(Tail(s))

C7_EmptyListRejected ==
    /\ (textRead /\ IsBlankText(cleaned)) => slides = << >>
    /\ (textRead /\ slides = << >>) =>
           /\ pc = "done"
           /\ response.status = 400
           /\ response.error = "noslides"
           /\ created = << >>
    /\ \A i \in 1..Len(created) : Len(created[i]) > 0

\* an upload of blank lines only has been answered
C7_Witness ==
    /\ pc = "done"
    /\ Len(parts) > 0
    /\ IsBlankText(cleaned)
    /\ response.error = "noslides"
    /\ created = << >>

\* C8: a missing file or a name not ending in '.md' is answered 400 before the
\* text is read or parsed; an empty list is answered 400 'no valid slides'; a
\* failure of createPPTX is answered 500; and 200 is answered only when the
\* file is there, its name ends in '.md', the list is non-empty and createPPTX
\* was called with it.
C8_FailureClasses ==
    /\ (pc = "done" /\ ~file.present) =>
           (response.status = 400 /\ response.error = "nofile")
    /\ (pc = "done" /\ file.present /\ ~EndsWith(file.name, DotMd)) =>
           (response.status = 400 /\ response.error = "extension")
    /\ response.error \in {"nofile", "extension"} =>
           (~textRead /\ slides = << >> /\ created = << >>)
    /\ response.error = "noslides" =>
           (response.status = 400 /\ textRead /\ slides = << >> /\ created = << >>)
    /\ pc = "renderFailed" =>
           (response.status = 500 /\ response.error = "internal"
            /\ created = << slides >>)
    /\ response.status = 200 =>
           /\ pc = "done"
           /\ file.present
           /\ EndsWith(file.name, DotMd)
           /\ textRead
           /\ Len(slides) > 0
           /\ created = << slides >>

\* createPPTX failed after all three checks had passed
C8_Witness ==
    /\ pc = "renderFailed"
    /\ response.status = 500
    /\ EndsWith(file.name, DotMd)
    /\ Len(slides) > 0

(***************************************************************************)
(* The stripping chain applied twice.                                      *)
(***************************************************************************)
HasChar(s, c) == \E i \in 1..Len(s) : s[i] = c
HasRegion(s, open, close) ==
    \E i \in 1..Len(s) :
        StartsAt(s, open, i) /\ IndexFrom(s, close, i + Len(open)) # 0
HasEntity(s) ==
    \E i \in 1..Len(s) :
        \/ StartsAt(s, EntLt, i) \/ StartsAt(s, EntGt, i)
        \/ StartsAt(s, EntQuot, i) \/ StartsAt(s, EntAmp, i)
StrippedTwice == pc = "twice"

\* C9 as stated: stripping the output of the stripping chain changes nothing.
C9_StripIdempotent == StrippedTwice => stripped[2] = stripped[1]

\* C9 as amended: stripping the output again changes nothing for every
\* string without '&', and for every string whose stripped form holds no
\* entity and no '<' with a '>' after it.
C9_StripIdempotentWithoutEntities ==
    (StrippedTwice
        /\ \/ ~HasChar(text, "&")
           \/ (~HasEntity(stripped[1])
               /\ ~HasRegion(stripped[1], << "<" >>, << ">" >>))) =>
        stripped[2] = stripped[1]

\* a string with tags and no '&' has been stripped twice
C9_Witness ==
    /\ StrippedTwice
    /\ ~HasChar(text, "&")
    /\ HasRegion(text, << "<" >>, << ">" >>)
    /\ Len(stripped[1]) > 0
    /\ stripped[2] = stripped[1]

(***************************************************************************)
(* Style blocks.                                                           *)
(***************************************************************************)

\* C10: after the preprocessing of a conversion no '<style>...</style>'
\* block remains in the text handed to segmentation.
C10_NoStyleBlockRemains ==
    pc = "cleaned" => ~HasRegion(cleaned, StyleOpen, StyleClose)

(***************************************************************************)
(* Entity decoding in bodies.                                              *)
(***************************************************************************)
\* the body line of a one-section document, and whether a heading stands above
BodyLine == parts[Len(parts)]
HasHeadingLine == Len(parts) = 2

\* s with every '&amp;', '&lt;', '&gt;' and '&quot;' replaced, in place and in
\* one pass, by '&', '<', '>' and '"'
RECURSIVE DecodeOnce(_)
DecodeOnce(s) ==
    IF Len(s) = 0 THEN << >>
    ELSE IF StartsAt(s, EntAmp, 1) THEN << "&" >> \o DecodeOnce(Tail_(s, Len(EntAmp) + 1))
    ELSE IF StartsAt(s, EntLt, 1) THEN << "<" >> \o DecodeOnce(Tail_(s, Len(EntLt) + 1))
    ELSE IF StartsAt(s, EntGt, 1) THEN << ">" >> \o DecodeOnce(Tail_(s, Len(EntGt) + 1))
    ELSE IF StartsAt(s, EntQuot, 1) THEN << "\"" >> \o DecodeOnce(Tail_(s, Len(EntQuot) + 1))
    ELSE << s[1] >> \o DecodeOnce(Tail(s))

\* the same, except that a backslash before a punctuation character is
\* dropped and that character kept as it is, whatever follows it
RECURSIVE DecodeUnescaped(_)
DecodeUnescaped(s) ==
    IF Len(s) = 0 THEN << >>
    ELSE IF s[1] = "\\" /\ Len(s) >= 2 /\ s[2] \in EscapedChars THEN
        << s[2] >> \o DecodeUnescaped(Tail_(s, 3))
    ELSE IF StartsAt(s, EntAmp, 1) THEN << "&" >> \o DecodeUnescaped(Tail_(s, Len(EntAmp) + 1))
    ELSE IF StartsAt(s, EntLt, 1) THEN << "<" >> \o DecodeUnescaped(Tail_(s, Len(EntLt) + 1))
    ELSE IF StartsAt(s, EntGt, 1) THEN << ">" >> \o DecodeUnescaped(Tail_(s, Len(EntGt) + 1))
    ELSE IF StartsAt(s, EntQuot, 1) THEN << "\"" >> \o DecodeUnescaped(Tail_(s, Len(EntQuot) + 1))
    ELSE << s[1] >> \o DecodeUnescaped(Tail(s))

HasSub(s, p) == IndexFrom(s, p, 1) > 0

\* the one record of the document has `body` as its body; a document with
\* neither a heading nor a body has no record
BodyIs(body) ==
    IF ~HasHeadingLine /\ Len(body) = 0 THEN slides = << >>
    ELSE Len(slides) = 1 /\ slides[1].content = << body >>

\* C11 as stated: every '&amp;', '&lt;', '&gt;' and '&quot;' of a section's
\* body is replaced in the record's body by '&', '<', '>' and '"' in its
\* place, so that no entity of the source is left undecoded in a body.
C11_EntitiesDecoded == Returned => BodyIs(trim(DecodeOnce(BodyLine)))

\* C11 as amended: every such entity that no backslash precedes is replaced
\* in its place, in one pass (the text a replacement produces is not decoded
\* again); an entity preceded by a backslash is emitted as it is written,
\* without the backslash.
C11_EntitiesDecodedUnlessEscaped ==
    Returned =>
        /\ BodyIs(trim(DecodeUnescaped(BodyLine)))
        /\ ~HasChar(BodyLine, "\\") => BodyIs(trim(DecodeOnce(BodyLine)))

\* a body '&amp;lt;' under a heading has been emitted as '&lt;'
C11_Witness ==
    /\ Returned
    /\ parts = << H1A, EntAmp \o << "l", "t", ";" >> >>
    /\ Len(slides) = 1
    /\ slides[1].content = << EntLt >>

(***************************************************************************)
(* Front matter across the two preprocessing steps of a conversion.        *)
(***************************************************************************)
\* index of the '---' line closing the leading block: the first one after line 1
RECURSIVE DelimiterFrom(_, _)
DelimiterFrom(ls, i) ==
    IF i > Len(ls) THEN 0
    ELSE IF IsDelimiterLine(ls[i]) THEN i
    ELSE DelimiterFrom(ls, i + 1)
FrontClose == DelimiterFrom(parts, 2)
\* the lines after the leading block
AfterFront == SubSeq(parts, FrontClose + 1, Len(parts))
\* what is left of the text when its first FrontClose lines are deleted
TextAfterFront == IF Len(AfterFront) = 0 THEN << >> ELSE NL \o join(AfterFront, NL)

\* C12: for a document that opens with a '---' ... '---' block followed by
\* slides separated by '---' lines, the two preprocessing steps of a
\* conversion together delete exactly that block: POST's replace deletes it,
\* the replace in parseMarkdownToSlides then deletes nothing, and every later
\* line, '---' lines included, is in the text handed to segmentation.
C12_OneFrontmatterRemoved ==
    Converted =>
        /\ markdown = TextAfterFront
        /\ StripFrontmatter(markdown) = markdown
        /\ cleaned = trim(join(AfterFront, NL))

\* a conversion whose slides are themselves enclosed by two '---' lines
C12_Witness ==
    /\ Converted
    /\ AfterFront = << Dashes, H1A, Dashes, LineX >>
    /\ cleaned = join(<< Dashes, H1A, Dashes, LineX >>, NL)
    /\ Len(slides) = 2

(***************************************************************************)
(* Sections with several heading lines.                                    *)
(***************************************************************************)
\* '#' markers (one to six) followed by a space or by nothing
IsMarkerLine(l) ==
    /\ HashCount(l) \in 1..6
    /\ (Len(l) = HashCount(l) \/ l[HashCount(l) + 1] = " ")
MarkerText(l) == trim(Tail_(l, HashCount(l) + 1))

\* the heading lines of section s after its first one
LaterHeadings(s) ==
    { j \in 1..Len(s) : j > FirstHeadingIdx(s) /\ IsHeadingLine(s[j]) }
HasSeveralHeadings(s) == TitledByHeading(s) /\ LaterHeadings(s) # {}

AddBlock(acc, para) == IF Len(para) = 0 THEN acc ELSE Append(acc, join(para, NL))

\* The blocks of text of section s, its line `skip` left out: runs of text
\* lines (a '---' line under a run ends it), and the text of every line of
\* markers; blank lines and the left-out line end a run.
RECURSIVE TextBlocks(_, _, _, _, _)
TextBlocks(s, i, skip, para, acc) ==
    IF i > Len(s) THEN AddBlock(acc, para)
    ELSE IF i = skip \/ IsBlankLine(s[i]) \/ IsDelimiterLine(s[i])
         THEN TextBlocks(s, i + 1, skip, << >>, AddBlock(acc, para))
    ELSE IF IsMarkerLine(s[i])
         THEN TextBlocks(s, i + 1, skip, << >>,
                         AddBlock(AddBlock(acc, para),
                                  IF Len(MarkerText(s[i])) = 0 THEN << >>
                                  ELSE << MarkerText(s[i]) >>))
    ELSE TextBlocks(s, i + 1, skip, Append(para, s[i]), acc)

\* the blocks after the title line is taken out, one blank line between them
BodyWithoutTitleLine(s) ==
    join(TextBlocks(s, 1, FirstHeadingIdx(s), << >>, << >>), << "\n", "\n" >>)

BodyLines(slide) == split(slide.content[1], NL)
IsLineOf(l, slide) == \E k \in 1..Len(BodyLines(slide)) : BodyLines(slide)[k] = l

InFlight(i) == drops[i].pc \in {"fetch", "json", "blob"}

\* C14: isConverting is true in every state in which a conversion request
\* is in flight, and false in every state in which none is.
C14_ConvertingIffInFlight ==
    isConverting <=> (\E i \in 1..MaxDrops : InFlight(i))

(***************************************************************************)
(* The name of the downloaded file.                                        *)
(***************************************************************************)
\* n, which ends in '.md', with that final extension replaced by '.pptx'
SwapExtension(n) == SubSeq(n, 1, Len(n) - Len(DotMd)) \o DotPptx

\* C15: the file name of every 200 response is the upload's name with its
\* trailing '.md' replaced by '.pptx'; it ends in '.pptx'.
C15_DownloadNameSwapsExtension ==
    response.status = 200 =>
        /\ response.filename = SwapExtension(file.name)
        /\ EndsWith(response.filename, DotPptx)

====
